---- MODULE Spec2Model ----
(***************************************************************************)
(* A model of tlobjects_generator.py: the generation run over the parsed   *)
(* TLObjects (one on_send / on_response pair per object, then the          *)
(* all_tlobjects registry), and the behaviour of the emitted on_send and   *)
(* on_response routines when they are run on an object.                    *)
(***************************************************************************)
EXTENDS Integers, Sequences, FiniteSets, TLC

\* ------------------------------------------------------------------ bounds
MaxArgs == 3
MaxVecLen == 2
MaxDefs == 2

\* ------------------------------------------------------- program constants
VectorId == 481674261
TrueId == 1072550713
IntWidth == 32

Pow2(n) == 2 ^ n

\* ------------------------------------------------------------- arguments
\* One argument of a TLObject, with the fields the generator reads.
Arg(name, type, vec, flag, idx, ind, gen) ==
    [name |-> name, type |-> type, is_vector |-> vec, is_flag |-> flag,
     flag_index |-> idx, flag_indicator |-> ind, generic_definition |-> gen]

ArgFlags == Arg("flags", "#", FALSE, FALSE, 0, TRUE, FALSE)
ArgN == Arg("n", "int", FALSE, FALSE, 0, FALSE, FALSE)
ArgA == Arg("a", "int", FALSE, TRUE, 0, FALSE, FALSE)
ArgB == Arg("b", "true", FALSE, TRUE, 1, FALSE, FALSE)
ArgC == Arg("c", "int", TRUE, TRUE, 0, FALSE, FALSE)
ArgV == Arg("v", "int", TRUE, FALSE, 0, FALSE, FALSE)
ArgG == Arg("g", "Type", FALSE, FALSE, 0, FALSE, TRUE)
ArgX == Arg("x", "InputPeer", FALSE, FALSE, 0, FALSE, FALSE)
ArgY == Arg("y", "bytes", FALSE, FALSE, 0, FALSE, FALSE)
ArgT == Arg("t", "Bool", FALSE, FALSE, 0, FALSE, FALSE)
ArgZ == Arg("z", "int", FALSE, TRUE, IntWidth, FALSE, FALSE)

\* The arguments the checked schema lines are made of, in one declaration
\* order: the flag indicator first, the optional arguments after it.
ArgOrder == <<ArgFlags, ArgN, ArgA, ArgB, ArgC, ArgV, ArgG, ArgX, ArgY, ArgT>>

Reverse(s) == [i \in 1..Len(s) |-> s[Len(s) + 1 - i]]

RECURSIVE Pick(_, _, _)
Pick(s, S, i) ==
    IF i > Len(s) THEN <<>>
    ELSE (IF i \in S THEN <<s[i]>> ELSE <<>>) \o Pick(s, S, i + 1)

Picks(s) == {Pick(s, S, 1) : S \in {T \in SUBSET (1..Len(s)) : Cardinality(T) <= MaxArgs}}

\* Argument lists: up to MaxArgs of these arguments, in that order or in the
\* opposite one (every optional argument then precedes the flag indicator).
\* ArgZ, whose flag index is no bit of a 32-bit word, comes with the flag
\* indicator and one more optional argument.
ArgLists == Picks(ArgOrder) \cup Picks(Reverse(ArgOrder)) \cup Picks(<<ArgFlags, ArgA, ArgZ>>)

Ids == {1, 2}

TLObject(id, fn, args) == [id |-> id, is_function |-> fn, args |-> args]

\* What TLParser.parse_file can hand to the generator: it checks neither the
\* flag arguments against the flag indicator nor the ids against each other.
RichSchemas == {<<TLObject(1, fn, as)>> : fn \in BOOLEAN, as \in ArgLists}

SmallDefs == {TLObject(id, fn, as) : id \in Ids, fn \in BOOLEAN, as \in {<<>>, <<ArgN>>}}

SmallSchemas == UNION {[1..k -> SmallDefs] : k \in 2..MaxDefs}

Schemas == RichSchemas \cup SmallSchemas

\* --------------------------------------------------------- source builder
NoName == <<"-", "-">>

Ins(op, name, item, k, ty) ==
    [op |-> op, name |-> name, item |-> item, k |-> k, ty |-> ty, indent |-> 0, tag |-> 0]

BlockOpeners == {"if_not_none", "for_in", "if_flag", "for_range"}

NewBuilder == [lines |-> <<>>, indent |-> 0, tag |-> 0]

Writeln(b, ins) ==
    [b EXCEPT !.lines = Append(@, [ins EXCEPT !.indent = b.indent, !.tag = b.tag]),
              !.indent = IF ins.op \in BlockOpeners THEN @ + 1 ELSE @]

EndBlock(b) == [b EXCEPT !.indent = @ - 1]

\* ------------------------------------------------------ write_onsend_code
SelfName(arg) == <<"self", arg.name>>
ItemName(arg) == <<"item", arg.name>>
LenName(name) == <<"len", name[2]>>

PrimTypes == {"int", "long", "int128", "int256", "double", "string", "Bool", "bytes"}

OnSendGuard(b, arg, name) ==
    IF arg.is_flag THEN Writeln(b, Ins("if_not_none", name, NoName, 0, "")) ELSE b

OnSendVectorOpen(b, arg, name) ==
    Writeln(Writeln(Writeln(b,
        Ins("write_const", NoName, NoName, VectorId, "")),
        Ins("write_len", name, NoName, 0, "")),
        Ins("for_in", name, ItemName(arg), 0, ""))

\* A generator that shifts by the argument's position, not its flag index.
RECURSIVE FlagLines_position(_, _, _)
FlagLines_position(b, args, i) ==
    IF i > Len(args) THEN b
    ELSE FlagLines_position(IF args[i].is_flag
                            THEN Writeln(b, Ins("flags_or", SelfName(args[i]), NoName, i, ""))
                            ELSE b,
                            args, i + 1)

RECURSIVE FlagLines(_, _, _)
FlagLines(b, args, i) ==
    IF i > Len(args) THEN b
    ELSE FlagLines(IF args[i].is_flag
                   THEN Writeln(b, Ins("flags_or", SelfName(args[i]), NoName, args[i].flag_index, ""))
                   ELSE b,
                   args, i + 1)

OnSendLeaf(b, arg, args, name) ==
    IF arg.flag_indicator
    THEN Writeln(FlagLines(Writeln(b, Ins("flags_zero", NoName, NoName, 0, "")), args, 1),
                 Ins("write_flags", NoName, NoName, 0, ""))
    ELSE IF arg.type \in PrimTypes
    THEN Writeln(b, Ins("write_prim", name, NoName, 0, arg.type))
    ELSE IF arg.type = "true"
    THEN Writeln(b, Ins("write_const", NoName, NoName, TrueId, ""))
    ELSE Writeln(b, Ins("write_obj", name, NoName, 0, ""))

\* A generator that leaves the block of an optional argument open.
OnSendClose_flagopen(b, arg) == IF arg.is_vector THEN EndBlock(b) ELSE b

OnSendClose(b, arg) ==
    LET b1 == IF arg.is_vector THEN EndBlock(b) ELSE b
    IN IF arg.is_flag THEN EndBlock(b1) ELSE b1

RECURSIVE write_onsend_code(_, _, _, _)
write_onsend_code(b, arg, args, name0) ==
    IF arg.generic_definition THEN b
    ELSE LET name == IF name0 = NoName THEN SelfName(arg) ELSE name0
             b1 == OnSendGuard(b, arg, name)
         IN IF arg.is_vector
            THEN OnSendClose(
                     write_onsend_code(OnSendVectorOpen(b1, arg, name),
                                       [arg EXCEPT !.is_vector = FALSE], args, ItemName(arg)),
                     arg)
            ELSE OnSendClose(OnSendLeaf(b1, arg, args, name), arg)

\* -------------------------------------------------- write_onresponse_code
OnResponseGuard(b, arg) ==
    IF arg.is_flag THEN Writeln(b, Ins("if_flag", NoName, NoName, arg.flag_index, "")) ELSE b

\* A generator whose read step does not read the vector's constructor id.
OnResponseVectorOpen_noid(b, arg, name) ==
    Writeln(Writeln(Writeln(b,
        Ins("init_list", name, NoName, 0, "")),
        Ins("read_len", LenName(name), NoName, 0, "")),
        Ins("for_range", LenName(name), NoName, 0, ""))

OnResponseVectorOpen(b, arg, name) ==
    Writeln(Writeln(Writeln(Writeln(b,
        Ins("read_skip", NoName, NoName, 0, "")),
        Ins("init_list", name, NoName, 0, "")),
        Ins("read_len", LenName(name), NoName, 0, "")),
        Ins("for_range", LenName(name), NoName, 0, ""))

OnResponseLeaf(b, arg, name) ==
    IF arg.flag_indicator
    THEN Writeln(b, Ins("read_flags", NoName, NoName, 0, ""))
    ELSE IF arg.type \in PrimTypes
    THEN Writeln(b, Ins("read_prim", name, NoName, 0, arg.type))
    ELSE IF arg.type = "true"
    THEN Writeln(b, Ins("read_true", name, NoName, TrueId, ""))
    ELSE Writeln(b, Ins("read_obj", name, NoName, 0, ""))

OnResponseAppend(b, arg, name) == Writeln(b, Ins("append", name, ItemName(arg), 0, ""))

OnResponseClose(b, arg) ==
    LET b1 == IF arg.is_vector THEN EndBlock(b) ELSE b
    IN IF arg.is_flag THEN EndBlock(b1) ELSE b1

RECURSIVE write_onresponse_code(_, _, _, _)
write_onresponse_code(b, arg, args, name0) ==
    IF arg.generic_definition THEN b
    ELSE LET name == IF name0 = NoName THEN SelfName(arg) ELSE name0
             b1 == OnResponseGuard(b, arg)
         IN IF arg.is_vector
            THEN OnResponseClose(
                     OnResponseAppend(
                         write_onresponse_code(OnResponseVectorOpen(b1, arg, name),
                                               [arg EXCEPT !.is_vector = FALSE], args, ItemName(arg)),
                         arg, name),
                     arg)
            ELSE OnResponseClose(OnResponseLeaf(b1, arg, name), arg)

\* ------------------------------------------------------------ run-time values
\* A Python value is <<tag, payload>>; None is its own tag.
None == <<"none", 0>>

IntTypes == {"int", "long", "int128", "int256"}

ValTag(ty) == IF ty \in IntTypes THEN "int" ELSE IF ty = "Bool" THEN "bool" ELSE ty

ScalarVals(ty) ==
    IF ty \in IntTypes THEN {<<"int", 1>>, <<"int", 2>>}
    ELSE IF ty = "Bool" THEN {<<"bool", 0>>, <<"bool", 1>>}
    ELSE IF ty = "true" THEN {<<"bool", 1>>}
    ELSE IF ty = "bytes" THEN {<<"bytes", 7>>}
    ELSE IF ty \in PrimTypes THEN {<<ty, 3>>}
    ELSE {<<"obj", 9>>}

SeqsUpTo(S, n) == UNION {[1..k -> S] : k \in 0..n}

\* The lists a vector argument is given. The on_send of an optional vector
\* tests each item against None, so some of its lists hold None.
NoneLists == {<<None>>, <<<<"int", 1>>, None>>, <<None, <<"int", 2>>>>}

ListVals(arg) ==
    {<<"list", s>> : s \in SeqsUpTo(ScalarVals(arg.type), MaxVecLen)
                          \cup (IF arg.is_flag THEN NoneLists ELSE {})}

IsValueArg(arg) == ~arg.flag_indicator /\ ~arg.generic_definition

ArgVals(arg) ==
    IF ~IsValueArg(arg) THEN {None}
    ELSE (IF arg.is_vector THEN ListVals(arg) ELSE ScalarVals(arg.type))
         \cup (IF arg.is_flag THEN {None} ELSE {})

\* The values the constructor can be given, one per argument (None stands at
\* the places of the flag indicator and of generic definitions, which are no
\* constructor parameters).
RECURSIVE Assignments(_)
Assignments(args) ==
    IF args = <<>> THEN {<<>>}
    ELSE {<<v>> \o rest : v \in ArgVals(Head(args)), rest \in Assignments(Tail(args))}

ValueIdx(args) == {i \in 1..Len(args) : IsValueArg(args[i])}

\* The attributes __init__ sets: self.<name> = <name> for every value argument,
\* and self.result = None for a function.
InitVars(def, vals) ==
    LET names == {SelfName(def.args[i]) : i \in ValueIdx(def.args)}
                 \cup (IF def.is_function THEN {<<"self", "result">>} ELSE {})
    IN [nm \in names |->
          IF \E i \in ValueIdx(def.args) : def.args[i].name = nm[2]
          THEN vals[CHOOSE i \in ValueIdx(def.args) : def.args[i].name = nm[2]]
          ELSE None]

NoneVals(args) == [i \in 1..Len(args) |-> None]

\* ------------------------------------------------------------ flags words
\* Python's unbounded int holding the flags, as the set of its one bits.
RECURSIVE BitsOf(_, _)
BitsOf(k, i) ==
    IF k = 0 THEN {}
    ELSE (IF k % 2 = 1 THEN {i} ELSE {}) \cup BitsOf(k \div 2, i + 1)

RECURSIVE NumOf(_)
NumOf(bits) ==
    IF bits = {} THEN 0
    ELSE LET i == CHOOSE x \in bits : TRUE IN Pow2(i) + NumOf(bits \ {i})

\* write_int keeps the low IntWidth bits of what it is given.
WordOf(bits) == NumOf({i \in bits : i < IntWidth})

BitOr(bits, idx) == bits \cup {idx}
BitTest(bits, idx) == idx \in bits

\* ------------------------------------------------ the emitted code, executed
NewEnv(vars, inp) ==
    [vars |-> vars, bound |-> FALSE, flags |-> {}, out |-> <<>>, inp |-> inp,
     err |-> FALSE, fw |-> <<>>]

Fail(env) == [env EXCEPT !.err = TRUE]

Bind(env, name, v) == [env EXCEPT !.vars = (name :> v) @@ @]

IsBound(env, name) == name \in DOMAIN env.vars

Emit(env, tok) == [env EXCEPT !.out = Append(@, tok)]

\* One reader call: the next token must be of the kind the call reads.
CanRead(env, kind) == env.inp # <<>> /\ Head(env.inp)[1] = kind

Take(env) == [env EXCEPT !.inp = Tail(@)]

Step(st, env) ==
    CASE st.op \in {"write_ctor", "write_const"} -> Emit(env, <<"int", st.k>>)
      [] st.op = "write_len" ->
            IF IsBound(env, st.name) /\ env.vars[st.name][1] = "list"
            THEN Emit(env, <<"int", Len(env.vars[st.name][2])>>)
            ELSE Fail(env)
      [] st.op = "flags_zero" -> [env EXCEPT !.bound = TRUE, !.flags = {}]
      [] st.op = "flags_or" ->
            IF ~IsBound(env, st.name) \/ ~env.bound THEN Fail(env)
            ELSE IF env.vars[st.name] # None
            THEN [env EXCEPT !.flags = BitOr(@, st.k)]
            ELSE env
      [] st.op = "write_flags" ->
            IF ~env.bound THEN Fail(env)
            ELSE [Emit(env, <<"int", WordOf(env.flags)>>)
                    EXCEPT !.fw = Append(@, BitsOf(WordOf(env.flags), 0))]
      [] st.op = "write_prim" ->
            IF IsBound(env, st.name) /\ env.vars[st.name][1] = ValTag(st.ty)
            THEN Emit(env, <<st.ty, env.vars[st.name][2]>>)
            ELSE Fail(env)
      [] st.op = "write_obj" ->
            IF IsBound(env, st.name) /\ env.vars[st.name][1] = "obj"
            THEN Emit(env, <<"obj", env.vars[st.name][2]>>)
            ELSE Fail(env)
      [] st.op = "read_skip" -> IF CanRead(env, "int") THEN Take(env) ELSE Fail(env)
      [] st.op = "init_list" -> Bind(env, st.name, <<"list", <<>>>>)
      [] st.op = "read_len" ->
            IF CanRead(env, "int") THEN Take(Bind(env, st.name, Head(env.inp))) ELSE Fail(env)
      [] st.op = "read_flags" ->
            IF CanRead(env, "int")
            THEN Take([env EXCEPT !.bound = TRUE, !.flags = BitsOf(Head(env.inp)[2], 0)])
            ELSE Fail(env)
      [] st.op = "read_prim" ->
            IF CanRead(env, st.ty)
            THEN Take(Bind(env, st.name, <<ValTag(st.ty), Head(env.inp)[2]>>))
            ELSE Fail(env)
      [] st.op = "read_true" ->
            IF CanRead(env, "int")
            THEN Take(Bind(env, st.name, <<"bool", IF Head(env.inp)[2] = st.k THEN 1 ELSE 0>>))
            ELSE Fail(env)
      [] st.op \in {"read_obj", "read_result"} ->
            IF CanRead(env, "obj") THEN Take(Bind(env, st.name, Head(env.inp))) ELSE Fail(env)
      [] st.op = "append" ->
            IF IsBound(env, st.name) /\ IsBound(env, st.item) /\ env.vars[st.name][1] = "list"
            THEN Bind(env, st.name, <<"list", Append(env.vars[st.name][2], env.vars[st.item])>>)
            ELSE Fail(env)
      [] OTHER -> env

\* The line after the block that line i opens (Python's indentation rule).
RECURSIVE BodyEnd(_, _, _, _)
BodyEnd(prog, i, j, hi) ==
    IF j >= hi \/ prog[j].indent <= prog[i].indent THEN j
    ELSE BodyEnd(prog, i, j + 1, hi)

RECURSIVE ExecRange(_, _, _, _)
RECURSIVE ForIn(_, _, _, _, _, _, _)
RECURSIVE ForRange(_, _, _, _, _)

ExecRange(prog, lo, hi, env) ==
    IF lo >= hi \/ env.err THEN env
    ELSE LET st == prog[lo]
             e == BodyEnd(prog, lo, lo + 1, hi)
         IN CASE st.op = "if_not_none" ->
                    IF ~IsBound(env, st.name) THEN Fail(env)
                    ELSE ExecRange(prog, e, hi,
                                   IF env.vars[st.name] # None
                                   THEN ExecRange(prog, lo + 1, e, env) ELSE env)
              [] st.op = "if_flag" ->
                    IF ~env.bound THEN Fail(env)
                    ELSE ExecRange(prog, e, hi,
                                   IF BitTest(env.flags, st.k)
                                   THEN ExecRange(prog, lo + 1, e, env) ELSE env)
              [] st.op = "for_in" ->
                    IF ~IsBound(env, st.name) \/ env.vars[st.name][1] # "list" THEN Fail(env)
                    ELSE ExecRange(prog, e, hi,
                                   ForIn(prog, lo + 1, e, env.vars[st.name][2], 1, st.item, env))
              [] st.op = "for_range" ->
                    IF ~IsBound(env, st.name) THEN Fail(env)
                    ELSE ExecRange(prog, e, hi,
                                   ForRange(prog, lo + 1, e, env.vars[st.name][2], env))
              [] OTHER -> ExecRange(prog, lo + 1, hi, Step(st, env))

ForIn(prog, lo, hi, items, i, item, env) ==
    IF i > Len(items) \/ env.err THEN env
    ELSE ForIn(prog, lo, hi, items, i + 1, item, ExecRange(prog, lo, hi, Bind(env, item, items[i])))

ForRange(prog, lo, hi, n, env) ==
    IF n <= 0 \/ env.err THEN env
    ELSE ForRange(prog, lo, hi, n - 1, ExecRange(prog, lo, hi, env))

Exec(prog, env) == ExecRange(prog, 1, Len(prog) + 1, env)

\* ------------------------------------------------------------------ state
VARIABLES
    tlobjects,  \* the parsed TLObjects, as the generator holds them
    parsed,     \* the TLObjects as the parser returned them
    pc,         \* where generate_tlobjecs is
    gi,         \* the index of the TLObject being generated
    ai,         \* the index of the argument being generated
    builder,    \* the SourceBuilder of the routine being written
    cur,        \* the on_send lines of the file being written
    files,      \* the files written, one per TLObject, in order
    registry,   \* the entries of the tlobjects dictionary in all_tlobjects.py
    run         \* one use of a generated class: on_send, then on_response

vars == <<tlobjects, parsed, pc, gi, ai, builder, cur, files, registry, run>>

IdleRun ==
    [phase |-> "idle", k |-> 0, vals |-> <<>>, out |-> <<>>, fw |-> <<>>, serr |-> FALSE,
     recv |-> <<>>, rest |-> <<>>, rerr |-> FALSE]

Init ==
    /\ tlobjects \in Schemas
    /\ parsed = tlobjects
    /\ pc = "open"
    /\ gi = 1
    /\ ai = 1
    /\ builder = NewBuilder
    /\ cur = <<>>
    /\ files = <<>>
    /\ registry = <<>>
    /\ run = IdleRun

CurObject == tlobjects[gi]

\* A loop that takes the arguments last to first.
ArgIndex_reversed(obj, n) == Len(obj.args) + 1 - n

\* for arg in tlobject.args: the n-th turn of the loop takes the n-th argument.
ArgIndex(obj, n) == n

CurIdx == ArgIndex(CurObject, ai)
CurArg == CurObject.args[CurIdx]

SetVector(objs, g, a, val) == [objs EXCEPT ![g].args[a].is_vector = val]

IsVectorCall(arg) == arg.is_vector /\ ~arg.generic_definition

\* The first line of on_send: the constructor id.
CtorLine(obj) == Ins("write_ctor", NoName, NoName, obj.id, "")

\* with open(filename, 'w'): the file of the next TLObject, up to the first
\* line of its on_send.
OpenObject ==
    /\ pc = "open"
    /\ gi <= Len(tlobjects)
    /\ builder' = Writeln(NewBuilder, CtorLine(CurObject))
    /\ cur' = <<>>
    /\ ai' = 1
    /\ pc' = "on_send"
    /\ UNCHANGED <<tlobjects, parsed, gi, files, registry, run>>

\* write_onsend_code for an argument that is no vector.
OnSendArg ==
    /\ pc = "on_send"
    /\ ai <= Len(CurObject.args)
    /\ ~IsVectorCall(CurArg)
    /\ builder' = write_onsend_code([builder EXCEPT !.tag = CurIdx], CurArg, CurObject.args, NoName)
    /\ ai' = ai + 1
    /\ UNCHANGED <<tlobjects, parsed, pc, gi, cur, files, registry, run>>

\* write_onsend_code for a vector, up to its recursive call: the guard, the
\* vector's framing, and arg.is_vector = False.
OnSendVectorEnter ==
    /\ pc = "on_send"
    /\ ai <= Len(CurObject.args)
    /\ IsVectorCall(CurArg)
    /\ builder' = OnSendVectorOpen(OnSendGuard([builder EXCEPT !.tag = CurIdx], CurArg, SelfName(CurArg)),
                                   CurArg, SelfName(CurArg))
    /\ tlobjects' = SetVector(tlobjects, gi, CurIdx, FALSE)
    /\ pc' = "on_send_item"
    /\ UNCHANGED <<parsed, gi, ai, cur, files, registry, run>>

\* The recursive call on the argument as it is now, then arg.is_vector = True
\* and the end of the blocks.
OnSendVectorReturn ==
    /\ pc = "on_send_item"
    /\ tlobjects' = SetVector(tlobjects, gi, CurIdx, TRUE)
    /\ builder' = OnSendClose(write_onsend_code(builder, CurArg, CurObject.args, ItemName(CurArg)),
                              tlobjects'[gi].args[CurIdx])
    /\ ai' = ai + 1
    /\ pc' = "on_send"
    /\ UNCHANGED <<parsed, gi, cur, files, registry, run>>

\* A generator whose on_response reads the constructor id again.
OnResponseHead_rereads(obj) ==
    IF obj.is_function THEN Writeln(NewBuilder, Ins("read_result", <<"self", "result">>, NoName, 0, ""))
    ELSE Writeln(NewBuilder, Ins("read_skip", NoName, NoName, 0, ""))

\* The first lines of on_response: a function reads its result, an object
\* without arguments passes.
OnResponseHead(obj) ==
    IF obj.is_function THEN Writeln(NewBuilder, Ins("read_result", <<"self", "result">>, NoName, 0, ""))
    ELSE IF obj.args # <<>> THEN NewBuilder
    ELSE Writeln(NewBuilder, Ins("pass", NoName, NoName, 0, ""))

HasResponseArgs(obj) == ~obj.is_function /\ obj.args # <<>>

\* The end of on_send and the start of on_response.
EndOnSend ==
    /\ pc = "on_send"
    /\ ai > Len(CurObject.args)
    /\ cur' = builder.lines
    /\ builder' = OnResponseHead(CurObject)
    /\ ai' = 1
    /\ pc' = "on_response"
    /\ UNCHANGED <<tlobjects, parsed, gi, files, registry, run>>

OnResponseArg ==
    /\ pc = "on_response"
    /\ HasResponseArgs(CurObject)
    /\ ai <= Len(CurObject.args)
    /\ ~IsVectorCall(CurArg)
    /\ builder' = write_onresponse_code([builder EXCEPT !.tag = CurIdx], CurArg, CurObject.args, NoName)
    /\ ai' = ai + 1
    /\ UNCHANGED <<tlobjects, parsed, pc, gi, cur, files, registry, run>>

OnResponseVectorEnter ==
    /\ pc = "on_response"
    /\ HasResponseArgs(CurObject)
    /\ ai <= Len(CurObject.args)
    /\ IsVectorCall(CurArg)
    /\ builder' = OnResponseVectorOpen(OnResponseGuard([builder EXCEPT !.tag = CurIdx], CurArg),
                                       CurArg, SelfName(CurArg))
    /\ tlobjects' = SetVector(tlobjects, gi, CurIdx, FALSE)
    /\ pc' = "on_response_item"
    /\ UNCHANGED <<parsed, gi, ai, cur, files, registry, run>>

OnResponseVectorReturn ==
    /\ pc = "on_response_item"
    /\ tlobjects' = SetVector(tlobjects, gi, CurIdx, TRUE)
    /\ builder' = OnResponseClose(
                      OnResponseAppend(
                          write_onresponse_code(builder, CurArg, CurObject.args, ItemName(CurArg)),
                          CurArg, SelfName(CurArg)),
                      tlobjects'[gi].args[CurIdx])
    /\ ai' = ai + 1
    /\ pc' = "on_response"
    /\ UNCHANGED <<parsed, gi, cur, files, registry, run>>

\* The end of on_response closes the file; after the last TLObject the
\* registry comes.
CloseObject ==
    /\ pc = "on_response"
    /\ HasResponseArgs(CurObject) => ai > Len(CurObject.args)
    /\ files' = Append(files, [send |-> cur, resp |-> builder.lines])
    /\ gi' = gi + 1
    /\ pc' = IF gi = Len(tlobjects) THEN "registry" ELSE "open"
    /\ builder' = NewBuilder
    /\ cur' = <<>>
    /\ ai' = 1
    /\ UNCHANGED <<tlobjects, parsed, registry, run>>

\* A registry that lists the types only.
RegistryLines_typesonly(objs) ==
    LET IsType(e) == ~objs[e.cls].is_function
    IN SelectSeq([k \in 1..Len(objs) |-> [id |-> objs[k].id, cls |-> k]], IsType)

\* all_tlobjects.py: one "id: class" line per TLObject, in order.
RegistryLines(objs) == [k \in 1..Len(objs) |-> [id |-> objs[k].id, cls |-> k]]

WriteRegistry ==
    /\ pc = "registry"
    /\ registry' = RegistryLines(tlobjects)
    /\ pc' = "done"
    /\ UNCHANGED <<tlobjects, parsed, gi, ai, builder, cur, files, run>>

\* on_send of an object of the k-th class, built with the values vals.
OnSend ==
    /\ pc = "done"
    /\ run.phase = "idle"
    /\ \E k \in 1..Len(files) :
         \E vals \in Assignments(tlobjects[k].args) :
            LET env == Exec(files[k].send, NewEnv(InitVars(tlobjects[k], vals), <<>>))
            IN run' = [IdleRun EXCEPT !.phase = "sent", !.k = k, !.vals = vals,
                                      !.out = env.out, !.fw = env.fw, !.serr = env.err]
    /\ UNCHANGED <<tlobjects, parsed, pc, gi, ai, builder, cur, files, registry>>

\* on_response of a fresh object of the same class on what on_send wrote,
\* the caller having read the constructor id.
OnResponse ==
    /\ pc = "done"
    /\ run.phase = "sent"
    /\ ~run.serr
    /\ LET obj == tlobjects[run.k]
           env == Exec(files[run.k].resp, NewEnv(InitVars(obj, NoneVals(obj.args)), Tail(run.out)))
       IN run' = [run EXCEPT !.phase = "received", !.recv = env.vars, !.rest = env.inp,
                             !.rerr = env.err]
    /\ UNCHANGED <<tlobjects, parsed, pc, gi, ai, builder, cur, files, registry>>

Next ==
    \/ OpenObject
    \/ OnSendArg
    \/ OnSendVectorEnter
    \/ OnSendVectorReturn
    \/ EndOnSend
    \/ OnResponseArg
    \/ OnResponseVectorEnter
    \/ OnResponseVectorReturn
    \/ CloseObject
    \/ WriteRegistry
    \/ OnSend
    \/ OnResponse

Spec == Init /\ [][Next]_vars

\* ================================================================ claims
\* ------------------------------------------------------------- vocabulary
Sent == run.phase \in {"sent", "received"}
Received == run.phase = "received"
RunObject == parsed[run.k]
RunArgs == RunObject.args

FlagArgs(args) == {i \in 1..Len(args) : args[i].is_flag}
Indicators(args) == {i \in 1..Len(args) : args[i].flag_indicator}
VectorArgs(args) == {i \in 1..Len(args) : IsVectorCall(args[i])}

\* The data model's invariants on one TLObject: flag indexes are bits of the
\* flags word, and optional arguments come after the one flag indicator.
WellFormed(obj) ==
    /\ \A i \in FlagArgs(obj.args) : obj.args[i].flag_index \in 0..(IntWidth - 1)
    /\ Cardinality(Indicators(obj.args)) <= 1
    /\ FlagArgs(obj.args) # {} =>
          /\ Indicators(obj.args) # {}
          /\ \A i \in FlagArgs(obj.args) : \A j \in Indicators(obj.args) : j < i

DistinctFlags(args) ==
    \A i, j \in FlagArgs(args) : (i # j) => (args[i].flag_index # args[j].flag_index)

PresentArgs(args, vals) == {i \in FlagArgs(args) : vals[i] # None}

\* Arguments that share a flag bit are given together or not at all.
BitConsistent(args, vals) ==
    \A i, j \in FlagArgs(args) :
        (args[i].flag_index = args[j].flag_index) => ((vals[i] = None) <=> (vals[j] = None))

NoNoneItems(v) == v[1] = "list" => \A n \in 1..Len(v[2]) : v[2][n] # None

\* The values an object of the class is meant to hold: no list holds None.
Admissible(args, vals) == \A i \in 1..Len(args) : NoNoneItems(vals[i])

RoundTripOK ==
    /\ ~run.rerr
    /\ run.rest = <<>>
    /\ \A i \in ValueIdx(RunArgs) : run.recv[SelfName(RunArgs[i])] = run.vals[i]

\* The lines of one routine that the i-th argument's call wrote.
StepOf(lines, i) == LET OfArg(l) == l.tag = i IN SelectSeq(lines, OfArg)

Count(lines, op) == Cardinality({n \in 1..Len(lines) : lines[n].op = op})

GuardSelects(arg, bits) ==
    LET mark == <<"self", "selected">>
        prog == Writeln(OnResponseGuard(NewBuilder, arg), Ins("init_list", mark, NoName, 0, "")).lines
        env == Exec(prog, [NewEnv(<<>>, <<>>) EXCEPT !.bound = TRUE, !.flags = bits])
    IN IsBound(env, mark)

FlagSymmetry(args, vals, bits) ==
    /\ bits = {args[i].flag_index : i \in PresentArgs(args, vals)}
    /\ {i \in FlagArgs(args) : GuardSelects(args[i], bits)} = PresentArgs(args, vals)

InRange(args) == \A i \in FlagArgs(args) : args[i].flag_index \in 0..(IntWidth - 1)

\* C2 as stated: for every set of present optional arguments the flags word
\* on_send writes is the OR of their bits, and the read guards select exactly
\* the present ones.
C2_FlagSymmetryEverySubset ==
    (Sent /\ run.fw # <<>> /\ InRange(RunArgs)) => FlagSymmetry(RunArgs, run.vals, run.fw[1])

\* C2 (amended): for a TLObject with a flag indicator whose optional arguments
\* have pairwise distinct flag indexes in 0..31, for every set S of present
\* optional arguments the flags word on_send writes is the OR of 1 << index
\* over S, and the read guards applied to that word select exactly S.
C2_FlagSymmetryDistinct ==
    (/\ Sent
     /\ run.fw # <<>>
     /\ InRange(RunArgs)
     /\ DistinctFlags(RunArgs)) => FlagSymmetry(RunArgs, run.vals, run.fw[1])

C2_Witness ==
    /\ Sent
    /\ run.fw # <<>>
    /\ InRange(RunArgs)
    /\ DistinctFlags(RunArgs)
    /\ \E i, j \in FlagArgs(RunArgs) : run.vals[i] = None /\ run.vals[j] # None
    /\ FlagSymmetry(RunArgs, run.vals, run.fw[1])

\* ---------------------------------------------------------------- C3
ItemTokens(items) == [n \in 1..Len(items) |-> <<"int", items[n][2]>>]

\* What the argument's on_send step writes for the values vals.
StepOutput(k, i, vals) ==
    Exec(StepOf(files[k].send, i), NewEnv(InitVars(parsed[k], vals), <<>>))

\* The read step write_onresponse_code writes for the argument. The
\* on_response of a function holds no argument's step.
ReadStep(k, i) ==
    write_onresponse_code([NewBuilder EXCEPT !.tag = i], parsed[k].args[i], parsed[k].args, NoName).lines

\* The argument's read step, run on tokens with the argument's flag set.
StepInput(k, i, tokens) ==
    Exec(ReadStep(k, i),
         [NewEnv(InitVars(parsed[k], NoneVals(parsed[k].args)), tokens)
            EXCEPT !.bound = TRUE, !.flags = {parsed[k].args[i].flag_index}])

VectorFramed(k, i, vals) ==
    LET items == vals[i][2]
        wrote == StepOutput(k, i, vals)
        back == StepInput(k, i, wrote.out)
    IN /\ ~wrote.err
       /\ wrote.out = <<<<"int", VectorId>>, <<"int", Len(items)>>>> \o ItemTokens(items)
       /\ ~parsed[k].is_function => StepOf(files[k].resp, i) = ReadStep(k, i)
       /\ ~back.err
       /\ back.inp = <<>>
       /\ back.vars[SelfName(parsed[k].args[i])] = vals[i]

\* C3: the step written for a vector argument writes the vector id, the count
\* and the items in order, and the read step written for it reads that back
\* as the same list, for lists of every length.
C3_VectorFraming ==
    Sent => \A i \in VectorArgs(RunArgs) :
               (run.vals[i] # None /\ NoNoneItems(run.vals[i])) => VectorFramed(run.k, i, run.vals)

C3_Witness ==
    /\ Sent
    /\ ~RunObject.is_function
    /\ \E i \in VectorArgs(RunArgs) :
          /\ run.vals[i] = <<"list", <<<<"int", 2>>, <<"int", 1>>>>>>
          /\ VectorFramed(run.k, i, run.vals)
    /\ \E j \in VectorArgs(RunArgs) :
          /\ RunArgs[j].is_flag
          /\ run.vals[j] = <<"list", <<>>>>
          /\ VectorFramed(run.k, j, run.vals)

\* ---------------------------------------------------------------- C4
HasDuplicateIds(objs) == \E i, j \in 1..Len(objs) : i # j /\ objs[i].id = objs[j].id

\* C4: a run over TLObjects two of which share a constructor id fails as a
\* whole: it never completes and no registry is written.
C4_DuplicateIdsFail ==
    HasDuplicateIds(parsed) => (pc # "done" /\ registry = <<>>)

\* ---------------------------------------------------------------- C5
StepArgs(args) == {i \in 1..Len(args) : ~args[i].generic_definition}

InOrder(lines) == \A m, n \in 1..Len(lines) : (m < n) => (lines[m].tag <= lines[n].tag)

\* Each line that names a variable names the argument of its step, but for
\* the lines of the flag indicator's step, which test the optional arguments.
NamesOwnArg(lines, args) ==
    \A n \in 1..Len(lines) :
        (lines[n].tag >= 1 /\ lines[n].name # NoName /\ lines[n].op # "flags_or")
            => lines[n].name[2] = args[lines[n].tag].name

OrderKept(lines, args) ==
    /\ InOrder(lines)
    /\ {lines[n].tag : n \in 1..Len(lines)} \ {0} = StepArgs(args)
    /\ NamesOwnArg(lines, args)

IndicatorOnceAndFirst(lines, args, flagop, guardops) ==
    /\ Count(lines, flagop) = Cardinality(Indicators(args))
    /\ \A m, n \in 1..Len(lines) :
          (lines[m].op = flagop /\ lines[n].tag \in FlagArgs(args) /\ lines[n].op \in guardops)
              => ((m < n) <=> (lines[m].tag < lines[n].tag))

\* C5: the steps of on_send, and of the on_response of a TLObject that is no
\* function, are those of the arguments in declaration order, one per
\* argument but the generic definitions; the flag indicator's step is
\* written once, at its declared place, so that it comes before the step of
\* every optional argument declared after it.
C5_DeclarationOrder ==
    \A k \in 1..Len(files) :
        LET obj == parsed[k]
            send == Tail(files[k].send)
        IN /\ OrderKept(send, obj.args)
           /\ IndicatorOnceAndFirst(send, obj.args, "write_flags", {"if_not_none"})
           /\ HasResponseArgs(obj) =>
                 /\ OrderKept(files[k].resp, obj.args)
                 /\ IndicatorOnceAndFirst(files[k].resp, obj.args, "read_flags", {"if_flag"})
           /\ (WellFormed(obj) /\ FlagArgs(obj.args) # {}) =>
                 /\ Count(send, "write_flags") = 1
                 /\ \A m, n \in 1..Len(send) :
                       (send[m].op = "write_flags" /\ send[n].tag \in FlagArgs(obj.args)) => m < n

C5_Witness ==
    /\ pc = "done"
    /\ \E k \in 1..Len(files) :
          /\ ~parsed[k].is_function
          /\ WellFormed(parsed[k])
          /\ Len(parsed[k].args) = 3
          /\ Cardinality(FlagArgs(parsed[k].args)) = 2
          /\ Count(files[k].resp, "read_flags") = 1
          /\ Count(files[k].resp, "if_flag") >= 2

\* ---------------------------------------------------------------- C6
\* C6: the first line of every on_send writes the TLObject's own constructor
\* id, outside every block; every line of the on_response of a TLObject that
\* is no function is a line of an argument's step (or pass), so none reads
\* the constructor id.
C6_ConstructorIdPlacement ==
    \A k \in 1..Len(files) :
        /\ files[k].send # <<>>
        /\ files[k].send[1].op = "write_ctor"
        /\ files[k].send[1].k = parsed[k].id
        /\ files[k].send[1].indent = 0
        /\ Count(files[k].send, "write_ctor") = 1
        /\ ~parsed[k].is_function =>
              \A n \in 1..Len(files[k].resp) :
                  \/ files[k].resp[n].op = "pass"
                  \/ files[k].resp[n].tag \in StepArgs(parsed[k].args)

C6_Witness ==
    /\ Received
    /\ ~RunObject.is_function
    /\ RunArgs = <<ArgN>>
    /\ run.out = <<<<"int", RunObject.id>>, <<"int", 2>>>>
    /\ run.recv[<<"self", "n">>] = <<"int", 2>>

\* ---------------------------------------------------------------- C7
\* C7: for TLObjects with pairwise different constructor ids the registry
\* holds one entry per TLObject, functions and types alike, under its
\* constructor id, in declaration order.
C7_RegistryCoverage ==
    (pc = "done" /\ ~HasDuplicateIds(parsed)) =>
        /\ Len(registry) = Len(parsed)
        /\ \A k \in 1..Len(parsed) : registry[k].id = parsed[k].id /\ registry[k].cls = k

C7_Witness ==
    /\ pc = "done"
    /\ Len(parsed) = 2
    /\ ~HasDuplicateIds(parsed)
    /\ parsed[1].is_function
    /\ ~parsed[2].is_function
    /\ Len(registry) = 2

\* ---------------------------------------------------------------- C8
Writing == pc \in {"on_send", "on_send_item", "on_response", "on_response_item"}

\* C8: no file, whole or partial, is written for a TLObject in which an
\* optional argument has no flag indicator before it or a flag index outside
\* 0..31.
C8_NoArtifactForBadFlags ==
    /\ \A k \in 1..Len(files) : WellFormed(parsed[k])
    /\ Writing => WellFormed(parsed[gi])

\* ---------------------------------------------------------------- C9
\* C9: in every state of the run every field of every argument is as the
\* parser gave it.
C9_ArgumentsImmutable == tlobjects = parsed

\* --------------------------------------------------------------- C10
OptionalVectors(args) == {i \in VectorArgs(args) : args[i].is_flag}

\* C10: the step of an optional vector tests for None once, around the whole
\* vector, and on_send writes as many items as the count it wrote before them.
C10_SingleGuard ==
    /\ \A k \in 1..Len(files) : \A i \in OptionalVectors(parsed[k].args) :
          Count(StepOf(files[k].send, i), "if_not_none") = 1
    /\ Sent => \A i \in OptionalVectors(RunArgs) :
                  run.vals[i] # None =>
                      LET wrote == StepOutput(run.k, i, run.vals).out
                      IN Len(wrote) = 2 + wrote[2][2]

====
